---- MODULE Spec2Model ----
(***************************************************************************)
(* A model of the byte-code interpreter of core/vm/vm.go: EVM.Run, the     *)
(* cost calculator calculateGasAndSize, RunPrecompiled and the EIP-1283    *)
(* SSTORE pricing eip1283sstoreGas.                                         *)
(*                                                                         *)
(* A 256-bit word is the pair <<hi, lo>>: hi is the value of its upper 12  *)
(* bytes and lo the value of its lower 20 bytes, so that the 20-byte       *)
(* common.Address and the 32-byte common.Hash made from one stack word are *)
(* both exact.  The modelled programs keep every byte of a word but the    *)
(* lowest of each half at zero.                                            *)
(***************************************************************************)
EXTENDS Integers, Sequences, FiniteSets, TLC

(***************************************************************************)
(* Opcodes (the OpCode byte values the interpreter switches on).           *)
(***************************************************************************)
STOP == 0
POP == 80
MSTORE == 82
SLOAD == 84
SSTORE == 85
JUMP == 86
JUMPI == 87
PC == 88
JUMPDEST == 91
PUSH1 == 96
PUSH32 == 127
DUP1 == 128
DUP16 == 143
SWAP1 == 144
SWAP16 == 159
CALL == 241
CALLCODE == 242
RETURN == 243
DELEGATECALL == 244
STATICCALL == 250
REVERT == 253
INVALID == 254
SUICIDE == 255

CallOps == {CALL, CALLCODE, DELEGATECALL, STATICCALL}

(***************************************************************************)
(* Words.                                                                  *)
(***************************************************************************)
W(n) == <<0, n>>

Zero == W(0)

\* big.Int Sign() / BitLen() / len(Bytes()) of a stack word: is it nonzero
NonZero(w) == w[1] # 0 \/ w[2] # 0

\* common.BigToHash: all 32 bytes of the word
BigToHash(w) == w

\* common.BigToAddress: the lower 20 bytes of the word
BigToAddress(w) == <<0, w[2]>>

\* the numeric value of a word that fits 20 bytes (offsets, sizes, gas)
Uint(w) == w[2]

Max(a, b) == IF a >= b THEN a ELSE b

RECURSIVE BytesToNat(_)
BytesToNat(bs) ==
  IF bs = <<>> THEN 0
  ELSE BytesToNat(SubSeq(bs, 1, Len(bs) - 1)) * 256 + bs[Len(bs)]

RECURSIVE NatToBytes(_, _)
NatToBytes(n, k) ==
  IF k = 0 THEN <<>> ELSE Append(NatToBytes(n \div 256, k - 1), n % 256)

Zeros(k) == [i \in 1..k |-> 0]

\* a word made of up to 32 big-endian bytes (left-padded)
BytesToWord(bs) ==
  LET p == Zeros(32 - Len(bs)) \o bs
  IN  <<BytesToNat(SubSeq(p, 1, 12)), BytesToNat(SubSeq(p, 13, 32))>>

\* the 32 big-endian bytes of a word
WordToBytes(w) == NatToBytes(w[1], 12) \o NatToBytes(w[2], 20)

(***************************************************************************)
(* Code.                                                                   *)
(***************************************************************************)
\* Contract.GetOp: the byte at n, STOP past the end of the code
GetOp(code, n) == IF n < Len(code) THEN code[n + 1] ELSE STOP

IsPush(op) == op >= PUSH1 /\ op <= PUSH32

\* the jump-destination analysis: JUMPDEST offsets outside PUSH payloads
RECURSIVE jumpdests(_, _)
jumpdests(code, i) ==
  IF i >= Len(code) THEN {}
  ELSE LET op == code[i + 1]
       IN  IF IsPush(op) THEN jumpdests(code, i + (op - PUSH1 + 1) + 1)
           ELSE IF op = JUMPDEST THEN {i} \cup jumpdests(code, i + 1)
           ELSE jumpdests(code, i + 1)

\* destinations.has: is the word a valid jump target of the code
has(code, to) == to[1] = 0 /\ to[2] < Len(code) /\ to[2] \in jumpdests(code, 0)

(***************************************************************************)
(* Stack (st[Len(st)] is the top).                                         *)
(***************************************************************************)
\* stack.data[stack.len()-k]
Back(st, k) == st[Len(st) + 1 - k]

PopN(st, k) == SubSeq(st, 1, Len(st) - k)

(***************************************************************************)
(* Memory and its cost.                                                    *)
(***************************************************************************)
toWordSize(n) == (n + 31) \div 32

\* calcMemSize: offset + length, nothing for a zero-length access
calcMemSize(off, l) == IF Uint(l) = 0 THEN 0 ELSE Uint(off) + Uint(l)

MemFee(words) == words * 3 + (words * words) \div 512

\* quadMemGas: the requested size rounded up to whole words, and the fee of
\* the words it adds to the current memory
quadMemGas(memLen, newMemSize) ==
  LET words == toWordSize(newMemSize)
      size == words * 32
  IN  IF newMemSize > 0 /\ size > memLen
      THEN [size |-> size, fee |-> MemFee(words) - MemFee(memLen \div 32)]
      ELSE [size |-> IF newMemSize > 0 THEN size ELSE 0, fee |-> 0]

\* Memory.Resize: grows only
Resize(mem, size) ==
  IF size > Len(mem) THEN mem \o Zeros(size - Len(mem)) ELSE mem

\* Memory.GetPtr
GetPtr(mem, off, size) ==
  IF size = 0 THEN <<>> ELSE SubSeq(mem, off + 1, off + size)

\* Memory.Set
MemSet(mem, off, bs) ==
  [i \in 1..Len(mem) |->
     IF i > off /\ i <= off + Len(bs) THEN bs[i - off] ELSE mem[i]]

(***************************************************************************)
(* Gas schedule.                                                           *)
(***************************************************************************)
Nil == -1

\* the GasTable of the active block (the EIP-150 table; a nil
\* CreateBySuicide marks the tables before it)
gasTable ==
  [SLoad |-> 200, Calls |-> 700, Suicide |-> 5000, CreateBySuicide |-> 25000]

\* params.StackLimit
StackLimit == 1024

\* _baseCheck: the operands an opcode pops, the results it pushes and its
\* step cost; opcodes without an entry are not checked here
BaseOps ==
  {STOP, POP, MSTORE, SLOAD, SSTORE, JUMP, JUMPI, PC, JUMPDEST, PUSH1, DUP1,
   CALL, CALLCODE, RETURN, DELEGATECALL, STATICCALL, REVERT, SUICIDE}

stackPop(op) ==
  CASE op \in {POP, SLOAD, JUMP, SUICIDE} -> 1
    [] op \in {MSTORE, SSTORE, JUMPI, RETURN, REVERT} -> 2
    [] op \in {DELEGATECALL, STATICCALL} -> 6
    [] op \in {CALL, CALLCODE} -> 7
    [] OTHER -> 0

stackPush(op) ==
  IF op \in {SLOAD, PC, PUSH1, DUP1} \cup CallOps THEN 1 ELSE 0

stepGas(op) ==
  CASE op = POP -> 2
    [] op = PC -> 2
    [] op = MSTORE -> 3
    [] op = PUSH1 -> 3
    [] op = JUMP -> 8
    [] op = JUMPI -> 10
    [] op = JUMPDEST -> 1
    [] OTHER -> 0

\* baseCheck: every PUSH is checked as PUSH1 and every DUP as DUP1
baseCheck(op, st) ==
  LET o == IF IsPush(op) THEN PUSH1
           ELSE IF op >= DUP1 /\ op <= DUP16 THEN DUP1 ELSE op
  IN  IF o \notin BaseOps THEN [err |-> "nil", gas |-> 0]
      ELSE IF Len(st) < stackPop(o) THEN [err |-> "StackUnderflow", gas |-> 0]
      ELSE IF stackPush(o) > 0 /\ Len(st) - stackPop(o) + stackPush(o) > StackLimit
           THEN [err |-> "StackLimit", gas |-> 0]
      ELSE [err |-> "nil", gas |-> stepGas(o)]

\* OpCode.IsStateModifying
IsStateModifying(op) == op \in {SSTORE, SUICIDE}

\* OpCode.IsReturning
IsReturning(op) == op \in CallOps

\* the call-gas forwarding rule: the requested gas, capped at 63/64 of what
\* remains after the base cost (nothing remains to cap when the base cost
\* alone exceeds the gas: the charge that follows fails)
callGas(availableGas, base, callCost) ==
  LET g == ((availableGas - base) * 63) \div 64
  IN  IF base > availableGas THEN callCost
      ELSE IF callCost > g THEN g ELSE callCost

\* Contract.UseGas: the whole charge or nothing
UseGas(gas, cost) ==
  IF gas < cost THEN [ok |-> FALSE, gas |-> gas]
  ELSE [ok |-> TRUE, gas |-> gas - cost]

(***************************************************************************)
(* State database.                                                         *)
(***************************************************************************)
\* Database.GetState: the slot's value, zero when never set
GetState(storage, addr, key) ==
  IF <<addr, key>> \in DOMAIN storage THEN storage[<<addr, key>>] ELSE Zero

\* Database.SetState
SetState(storage, addr, key, val) ==
  [x \in DOMAIN storage \cup {<<addr, key>>} |->
     IF x = <<addr, key>> THEN val ELSE storage[x]]

(***************************************************************************)
(* SSTORE pricing with EIP-1283: the gas and the refund delta.             *)
(***************************************************************************)
\* eip1283sstoreGas with the two reset refunds taken for one another
eip1283sstoreGasSwapped(originalValue, currentValue, newValue) ==
  IF newValue = currentValue THEN [g |-> 200, refundCounter |-> 0]
  ELSE IF originalValue = currentValue
  THEN IF originalValue = Zero THEN [g |-> 20000, refundCounter |-> 0]
       ELSE [g |-> 5000,
             refundCounter |-> IF newValue = Zero THEN 15000 ELSE 0]
  ELSE [g |-> 200,
        refundCounter |->
            (IF originalValue # Zero /\ currentValue = Zero THEN -15000 ELSE 0)
          + (IF originalValue # Zero /\ newValue = Zero THEN 15000 ELSE 0)
          + (IF originalValue = newValue
             THEN IF originalValue = Zero THEN 4800 ELSE 19800
             ELSE 0)]

\* eip1283sstoreGas without the refund taken back from a slot that was
\* cleared and is set again
eip1283sstoreGasKept(originalValue, currentValue, newValue) ==
  IF newValue = currentValue THEN [g |-> 200, refundCounter |-> 0]
  ELSE IF originalValue = currentValue
  THEN IF originalValue = Zero THEN [g |-> 20000, refundCounter |-> 0]
       ELSE [g |-> 5000,
             refundCounter |-> IF newValue = Zero THEN 15000 ELSE 0]
  ELSE [g |-> 200,
        refundCounter |->
            (IF originalValue # Zero /\ newValue = Zero THEN 15000 ELSE 0)
          + (IF originalValue = newValue
             THEN IF originalValue = Zero THEN 19800 ELSE 4800
             ELSE 0)]

eip1283sstoreGas(originalValue, currentValue, newValue) ==
  IF newValue = currentValue THEN [g |-> 200, refundCounter |-> 0]
  ELSE IF originalValue = currentValue
  THEN IF originalValue = Zero THEN [g |-> 20000, refundCounter |-> 0]
       ELSE [g |-> 5000,
             refundCounter |-> IF newValue = Zero THEN 15000 ELSE 0]
  ELSE [g |-> 200,
        refundCounter |->
            (IF originalValue # Zero /\ currentValue = Zero THEN -15000 ELSE 0)
          + (IF originalValue # Zero /\ newValue = Zero THEN 15000 ELSE 0)
          + (IF originalValue = newValue
             THEN IF originalValue = Zero THEN 19800 ELSE 4800
             ELSE 0)]

(***************************************************************************)
(* The cost calculator.  db is the state database [storage, refund,        *)
(* suicided, exists, grants], grants being the history of the contracts    *)
(* the self-destruct refund was added for, kept with the refund counter;   *)
(* the result carries what the call leaves behind: the                     *)
(* error, the new memory size, the cost, the stack, the original-value map *)
(* and the refund counter.                                                 *)
(***************************************************************************)
CostResult(err, size, gas, st, osm, refund) ==
  [err |-> err, newMemSize |-> size, gas |-> gas, stack |-> st,
   osm |-> osm, refund |-> refund, originalValue |-> Zero]

\* suicideGas without the test of HasSuicided
suicideGasEveryTime(addr, st, osm, db) ==
  LET g == IF gasTable.CreateBySuicide # Nil
           THEN gasTable.Suicide
                + (IF Uint(BigToAddress(Back(st, 1))) \notin db.exists
                   THEN gasTable.CreateBySuicide ELSE 0)
           ELSE 0
  IN  CostResult("nil", 0, g, st, osm, db.refund + 24000)

\* case SUICIDE
suicideGas(addr, st, osm, db) ==
  LET g == IF gasTable.CreateBySuicide # Nil
           THEN gasTable.Suicide
                + (IF Uint(BigToAddress(Back(st, 1))) \notin db.exists
                   THEN gasTable.CreateBySuicide ELSE 0)
           ELSE 0
      r == IF addr \notin db.suicided THEN db.refund + 24000 ELSE db.refund
  IN  CostResult("nil", 0, g, st, osm, r)

\* flatSstoreGas with the refund granted for every write to a nonzero slot
flatSstoreGasEveryChange(currentValue, newValue) ==
  IF currentValue = Zero /\ BigToHash(newValue) # Zero
  THEN [g |-> 20000, refundCounter |-> 0]
  ELSE IF currentValue # Zero
  THEN [g |-> 5000, refundCounter |-> 15000]
  ELSE [g |-> 5000, refundCounter |-> 0]

\* case SSTORE ahead of EIP-1283: new value, delete, change
flatSstoreGas(currentValue, newValue) ==
  IF currentValue = Zero /\ BigToHash(newValue) # Zero
  THEN [g |-> 20000, refundCounter |-> 0]
  ELSE IF currentValue # Zero /\ BigToHash(newValue) = Zero
  THEN [g |-> 5000, refundCounter |-> 15000]
  ELSE [g |-> 5000, refundCounter |-> 0]

\* case SSTORE
sstoreGas(eip1283, addr, st, osm, db) ==
  IF Len(st) < 2 THEN CostResult("StackUnderflow", 0, 0, st, osm, db.refund)
  ELSE
    LET newValue == Back(st, 2)
        storageLoc == Back(st, 1)
        currentValue == GetState(db.storage, addr, BigToHash(storageLoc))
    IN  IF ~eip1283
        THEN LET r == flatSstoreGas(currentValue, newValue)
             IN  CostResult("nil", 0, r.g, st, osm,
                            db.refund + r.refundCounter)
        ELSE
          LET loc == BigToAddress(storageLoc)
              known == loc \in DOMAIN osm
              originalValue == IF known THEN osm[loc] ELSE currentValue
              osm2 == IF known THEN osm
                      ELSE [x \in DOMAIN osm \cup {loc} |->
                              IF x = loc THEN currentValue ELSE osm[x]]
              r == eip1283sstoreGas(originalValue, currentValue, newValue)
          IN  [CostResult("nil", 0, r.g, st, osm2,
                          db.refund + r.refundCounter)
                 EXCEPT !.originalValue = originalValue]

\* callCost without the forwarded gas in the cost
callCostNotForwarded(op, contractGas, st, memLen, osm, db) ==
  LET g1 == gasTable.Calls
      g2 == IF op = CALL /\ Uint(BigToAddress(Back(st, 2))) \notin db.exists
            THEN g1 + 25000 ELSE g1
      g3 == IF NonZero(Back(st, 3)) THEN g2 + 9000 ELSE g2
      x == calcMemSize(Back(st, 6), Back(st, 7))
      y == calcMemSize(Back(st, 4), Back(st, 5))
      q == quadMemGas(memLen, Max(x, y))
      gas == g3 + q.fee
      cg == callGas(contractGas, gas, Uint(Back(st, 1)))
      st2 == [st EXCEPT ![Len(st)] = W(cg)]
  IN  CostResult("nil", q.size, gas, st2, osm, db.refund)

\* case CALL, CALLCODE
callCost(op, contractGas, st, memLen, osm, db) ==
  LET g1 == gasTable.Calls
      g2 == IF op = CALL /\ Uint(BigToAddress(Back(st, 2))) \notin db.exists
            THEN g1 + 25000 ELSE g1
      g3 == IF NonZero(Back(st, 3)) THEN g2 + 9000 ELSE g2
      x == calcMemSize(Back(st, 6), Back(st, 7))
      y == calcMemSize(Back(st, 4), Back(st, 5))
      q == quadMemGas(memLen, Max(x, y))
      gas == g3 + q.fee
      cg == callGas(contractGas, gas, Uint(Back(st, 1)))
      st2 == [st EXCEPT ![Len(st)] = W(cg)]
  IN  CostResult("nil", q.size, gas + cg, st2, osm, db.refund)

\* delegateCallCost writing the forwarded gas one slot below the top
delegateCallCostWrongSlot(contractGas, st, memLen, osm, db) ==
  LET x == calcMemSize(Back(st, 5), Back(st, 6))
      y == calcMemSize(Back(st, 3), Back(st, 4))
      q == quadMemGas(memLen, Max(x, y))
      gas == gasTable.Calls + q.fee
      cg == callGas(contractGas, gas, Uint(Back(st, 1)))
      st2 == [st EXCEPT ![Len(st) - 1] = W(cg)]
  IN  CostResult("nil", q.size, gas + cg, st2, osm, db.refund)

\* case DELEGATECALL, STATICCALL
delegateCallCost(contractGas, st, memLen, osm, db) ==
  LET x == calcMemSize(Back(st, 5), Back(st, 6))
      y == calcMemSize(Back(st, 3), Back(st, 4))
      q == quadMemGas(memLen, Max(x, y))
      gas == gasTable.Calls + q.fee
      cg == callGas(contractGas, gas, Uint(Back(st, 1)))
      st2 == [st EXCEPT ![Len(st)] = W(cg)]
  IN  CostResult("nil", q.size, gas + cg, st2, osm, db.refund)

calculateGasAndSize(eip1283, contractGas, addr, op, st, memLen, osm, db) ==
  LET b == baseCheck(op, st)
  IN  IF b.err # "nil" THEN CostResult(b.err, 0, 0, st, osm, db.refund)
      ELSE IF op = SUICIDE THEN suicideGas(addr, st, osm, db)
      ELSE IF op = SLOAD
           THEN CostResult("nil", 0, gasTable.SLoad, st, osm, db.refund)
      ELSE IF op >= SWAP1 /\ op <= SWAP16
           THEN IF Len(st) < op - SWAP1 + 2
                THEN CostResult("StackUnderflow", 0, 0, st, osm, db.refund)
                ELSE CostResult("nil", 0, 3, st, osm, db.refund)
      ELSE IF op >= DUP1 /\ op <= DUP16
           THEN IF Len(st) < op - DUP1 + 1
                THEN CostResult("StackUnderflow", 0, 0, st, osm, db.refund)
                ELSE CostResult("nil", 0, 3, st, osm, db.refund)
      ELSE IF op = SSTORE THEN sstoreGas(eip1283, addr, st, osm, db)
      ELSE IF op = MSTORE
           THEN LET q == quadMemGas(memLen, calcMemSize(Back(st, 1), W(32)))
                IN  CostResult("nil", q.size, b.gas + q.fee, st, osm, db.refund)
      ELSE IF op \in {RETURN, REVERT}
           THEN LET q == quadMemGas(memLen,
                                    calcMemSize(Back(st, 1), Back(st, 2)))
                IN  CostResult("nil", q.size, b.gas + q.fee, st, osm, db.refund)
      ELSE IF op \in {CALL, CALLCODE}
           THEN callCost(op, contractGas, st, memLen, osm, db)
      ELSE IF op \in {DELEGATECALL, STATICCALL}
           THEN delegateCallCost(contractGas, st, memLen, osm, db)
      ELSE CostResult("nil", 0, b.gas, st, osm, db.refund)

(***************************************************************************)
(* Precompiled contracts.                                                  *)
(***************************************************************************)
\* PrecompiledHomestead / PrecompiledContractsECIP1045B: the reserved set
precompiles(ecip1045b) == IF ecip1045b THEN 1..8 ELSE 1..4

\* PrecompiledAccount.Gas: a base price plus a price per input word
PrecompileGas(p, input) ==
  CASE p = 4 -> 15 + 3 * toWordSize(Len(input))
    [] p = 2 -> 60 + 12 * toWordSize(Len(input))
    [] OTHER -> 3000

\* PrecompiledAccount.Call: the identity contract echoes its input
PrecompileCall(p, input) == IF p = 4 THEN input ELSE <<p>>

\* RunPrecompiled with p.Call ahead of the charge
RunPrecompiledCallFirst(p, input, contractGas) ==
  LET gas == PrecompileGas(p, input)
      u == UseGas(contractGas, gas)
  IN  IF u.ok
      THEN [out |-> PrecompileCall(p, input), err |-> "nil", gas |-> u.gas,
            called |-> TRUE]
      ELSE [out |-> <<>>, err |-> "OutOfGas", gas |-> u.gas, called |-> TRUE]

\* RunPrecompiled: the Run result and whether p.Call was invoked
RunPrecompiled(p, input, contractGas) ==
  LET gas == PrecompileGas(p, input)
      u == UseGas(contractGas, gas)
  IN  IF u.ok
      THEN [out |-> PrecompileCall(p, input), err |-> "nil", gas |-> u.gas,
            called |-> TRUE]
      ELSE [out |-> <<>>, err |-> "OutOfGas", gas |-> u.gas, called |-> FALSE]

(***************************************************************************)
(* One iteration of the interpreter loop, stage by stage.                  *)
(***************************************************************************)
\* checkStateMod without the test of the value a CALL transfers
checkStateModNoValue(ecip1045b, readOnly, op, st) ==
  IF ~(ecip1045b /\ readOnly) THEN "false"
  ELSE IF IsStateModifying(op) THEN "true"
  ELSE "false"

\* the read-only check before the cost calculation; "panic" is the index
\* out of range of stack.data[stack.len()-2-1] on a stack of fewer than 3
checkStateMod(ecip1045b, readOnly, op, st) ==
  IF ~(ecip1045b /\ readOnly) THEN "false"
  ELSE IF IsStateModifying(op) THEN "true"
  ELSE IF op = CALL
       THEN IF Len(st) < 3 THEN "panic"
            ELSE IF NonZero(Back(st, 3)) THEN "true" ELSE "false"
  ELSE "false"

\* jump looking at the byte at the target instead of the analysed code
jumpByByte(code, pc, to) ==
  IF ~(to[1] = 0 /\ GetOp(code, Uint(to)) = JUMPDEST)
  THEN [err |-> "InvalidJump", pc |-> pc]
  ELSE [err |-> "nil", pc |-> Uint(to)]

\* the jump closure: the new pc, or an error with the pc where it was
jump(code, pc, to) ==
  IF ~has(code, to) THEN [err |-> "InvalidJump", pc |-> pc]
  ELSE [err |-> "nil", pc |-> Uint(to)]

\* the jump table of the active fork: which opcodes have a valid entry
ModelOps ==
  {STOP, POP, MSTORE, SLOAD, SSTORE, JUMP, JUMPI, PC, JUMPDEST, DUP1, SWAP1,
   CALL, CALLCODE, RETURN, DELEGATECALL, STATICCALL, REVERT, SUICIDE}
  \cup PUSH1..PUSH32

valid(ecip1045b, op) ==
  op \in ModelOps /\ (op \in {STATICCALL, REVERT} => ecip1045b)

\* the instruction handlers reached through opPtr.fn
opFn(f, op, db) ==
  LET st == f.stack
  IN  CASE op = POP -> [f |-> [f EXCEPT !.stack = PopN(st, 1)], db |-> db]
        [] op = MSTORE ->
             [f |-> [f EXCEPT !.stack = PopN(st, 2),
                              !.mem = MemSet(f.mem, Uint(Back(st, 1)),
                                             WordToBytes(Back(st, 2)))],
              db |-> db]
        [] op = SLOAD ->
             [f |-> [f EXCEPT !.stack =
                        Append(PopN(st, 1),
                               GetState(db.storage, f.addr,
                                        BigToHash(Back(st, 1))))],
              db |-> db]
        [] op = SSTORE ->
             [f |-> [f EXCEPT !.stack = PopN(st, 2)],
              db |-> [db EXCEPT !.storage =
                        SetState(db.storage, f.addr, BigToHash(Back(st, 1)),
                                 Back(st, 2))]]
        [] IsPush(op) ->
             LET n == op - PUSH1 + 1
                 bs == [i \in 1..n |-> GetOp(f.code, f.pc + i)]
             IN  [f |-> [f EXCEPT !.stack = Append(st, BytesToWord(bs)),
                                  !.pc = f.pc + n],
                  db |-> db]
        [] op = DUP1 -> [f |-> [f EXCEPT !.stack = Append(st, Back(st, 1))],
                         db |-> db]
        [] op = SWAP1 ->
             [f |-> [f EXCEPT !.stack =
                        Append(Append(PopN(st, 2), Back(st, 1)), Back(st, 2))],
              db |-> db]
        [] OTHER -> [f |-> f, db |-> db]

\* opSuicide: the contract is registered as self-destructed and the
\* beneficiary receives its balance
opSuicide(f, db) ==
  [db EXCEPT !.suicided = @ \cup {f.addr},
             !.exists = @ \cup {Uint(BigToAddress(Back(f.stack, 1)))}]

Outcome(kind, f, db, out, err) ==
  [kind |-> kind, f |-> f, db |-> db, out |-> out, err |-> err]

\* returnOutput with the size popped ahead of the offset
returnOutputSwapped(f, op, db) ==
  LET size == Back(f.stack, 1)
      offset == Back(f.stack, 2)
  IN  Outcome("end", [f EXCEPT !.stack = PopN(f.stack, 2)], db,
              GetPtr(f.mem, Uint(offset), Uint(size)),
              IF op = REVERT THEN "ExecutionReverted" ELSE "nil")

\* case REVERT, case RETURN: Run returns the slice of the memory, with
\* ErrExecutionReverted for a REVERT
returnOutput(f, op, db) ==
  LET offset == Back(f.stack, 1)
      size == Back(f.stack, 2)
  IN  Outcome("end", [f EXCEPT !.stack = PopN(f.stack, 2)], db,
              GetPtr(f.mem, Uint(offset), Uint(size)),
              IF op = REVERT THEN "ExecutionReverted" ELSE "nil")

\* the dispatch of an instruction with a valid entry in the jump table:
\* "cont" goes on to the end of the loop body, "jump" continues the loop
\* from the jump, "end" returns from Run, "call" is a call handler about to
\* run the callee
dispatch(f, op, db) ==
  LET st == f.stack
  IN  IF op = PC
           THEN Outcome("cont", [f EXCEPT !.stack = Append(st, W(f.pc)),
                                          !.pc = f.pc + 1], db, <<>>, "nil")
      ELSE IF op = JUMP
           THEN LET j == jump(f.code, f.pc, Back(st, 1))
                    f2 == [f EXCEPT !.stack = PopN(st, 1), !.pc = j.pc]
                IN  IF j.err # "nil" THEN Outcome("end", f2, db, <<>>, j.err)
                    ELSE Outcome("jump", f2, db, <<>>, "nil")
      ELSE IF op = JUMPI
           THEN LET pos == Back(st, 1)
                    cond == Back(st, 2)
                    j == jump(f.code, f.pc, pos)
                    f1 == [f EXCEPT !.stack = PopN(st, 2)]
                IN  IF NonZero(cond)
                    THEN IF j.err # "nil"
                         THEN Outcome("end", f1, db, <<>>, j.err)
                         ELSE Outcome("jump", [f1 EXCEPT !.pc = j.pc], db,
                                      <<>>, "nil")
                    ELSE Outcome("cont", [f1 EXCEPT !.pc = f.pc + 1], db,
                                 <<>>, "nil")
      ELSE IF op \in {REVERT, RETURN} THEN returnOutput(f, op, db)
      ELSE IF op = SUICIDE
           THEN Outcome("end", f, opSuicide(f, db), <<>>, "nil")
      ELSE IF op = STOP THEN Outcome("end", f, db, <<>>, "nil")
      ELSE IF op \in CallOps THEN Outcome("call", f, db, <<>>, "nil")
      ELSE LET r == opFn(f, op, db)
           IN  Outcome("cont", [r.f EXCEPT !.pc = r.f.pc + 1], r.db, <<>>,
                       "nil")

\* execute without the test of opPtr.valid
executeAnyEntry(ecip1045b, f, op, db) == dispatch(f, op, db)

\* the instruction once its gas is charged and the memory resized: an
\* opcode without a valid entry in the jump table ends Run
execute(ecip1045b, f, op, db) ==
  IF ~valid(ecip1045b, op) THEN Outcome("end", f, db, <<>>, "InvalidOpcode")
  ELSE dispatch(f, op, db)

\* what the stages of one iteration leave behind; stage names the last
\* stage the iteration reached
Iteration(stage, x, op, c) ==
  [stage |-> stage, kind |-> x.kind, f |-> x.f, db |-> x.db, out |-> x.out,
   err |-> x.err, op |-> op, c |-> c]

\* chargeGas going on when UseGas has refused the charge
chargeGasUnchecked(fc, cost) ==
  LET u == UseGas(fc.gas, cost)
  IN  [ok |-> TRUE, f |-> [fc EXCEPT !.gas = u.gas]]

\* chargeGas taking the cost twice
chargeGasTwice(fc, cost) ==
  LET u == UseGas(fc.gas, cost)
      v == UseGas(u.gas, cost)
  IN  [ok |-> u.ok, f |-> [fc EXCEPT !.gas = v.gas]]

\* the charge of the computed cost: Run returns OutOfGasError when UseGas
\* refuses it
chargeGas(fc, cost) ==
  LET u == UseGas(fc.gas, cost)
  IN  [ok |-> u.ok, f |-> [fc EXCEPT !.gas = u.gas]]

\* chargeAndExecute with the memory resized ahead of the charge
resizeAndCharge(e, f, db, op, c) ==
  LET fc == [f EXCEPT !.stack = c.stack, !.osm = c.osm,
                      !.mem = Resize(f.mem, c.newMemSize)]
      dbc == [db EXCEPT !.refund = c.refund,
                        !.grants = IF op = SUICIDE
                                      /\ c.refund = db.refund + 24000
                                   THEN Append(@, f.addr) ELSE @]
      u == chargeGas(fc, c.gas)
  IN  IF c.err # "nil"
      THEN Iteration("cost", Outcome("end", f, dbc, <<>>, c.err), op, c)
      ELSE IF ~u.ok
      THEN Iteration("charge", Outcome("end", u.f, dbc, <<>>, "OutOfGas"),
                     op, c)
      ELSE Iteration("execute", execute(e.ecip1045b, u.f, op, dbc), op, c)

\* the iteration from the charge on, c being what calculateGasAndSize
\* returned
chargeAndExecute(e, f, db, op, c) ==
  LET fc == [f EXCEPT !.stack = c.stack, !.osm = c.osm]
      dbc == [db EXCEPT !.refund = c.refund,
                        !.grants = IF op = SUICIDE
                                      /\ c.refund = db.refund + 24000
                                   THEN Append(@, f.addr) ELSE @]
      u == chargeGas(fc, c.gas)
      fr == [u.f EXCEPT !.mem = Resize(f.mem, c.newMemSize)]
  IN  IF c.err # "nil"
      THEN Iteration("cost", Outcome("end", fc, dbc, <<>>, c.err), op, c)
      ELSE IF ~u.ok
      THEN Iteration("charge", Outcome("end", u.f, dbc, <<>>, "OutOfGas"),
                     op, c)
      ELSE Iteration("execute", execute(e.ecip1045b, fr, op, dbc), op, c)

\* the iteration on the instruction op, wp being the verdict of the
\* read-only check
checkAndCost(e, f, db, op, wp) ==
  LET none == CostResult("nil", 0, 0, f.stack, f.osm, db.refund)
  IN  IF wp = "panic"
      THEN Iteration("check", Outcome("abort", f, db, <<>>, "panic"), op, none)
      ELSE IF wp = "true"
      THEN Iteration("check",
                     Outcome("end", f, db, <<>>, "WriteProtection"), op, none)
      ELSE chargeAndExecute(e, f, db, op,
                            calculateGasAndSize(e.eip1283, f.gas, f.addr, op,
                                                f.stack, Len(f.mem), f.osm,
                                                db))

\* one iteration of the loop on the activation f
iterateOp(e, f, db, op) ==
  checkAndCost(e, f, db, op, checkStateMod(e.ecip1045b, f.readOnly, op,
                                           f.stack))

iterate(e, f, db) == iterateOp(e, f, db, GetOp(f.code, f.pc))

(***************************************************************************)
(* Programs and the world the interpreter runs in.                         *)
(***************************************************************************)
Push1(v) == <<PUSH1, v>>

\* PUSH32 of the word <<hi, lo>>, hi and lo below 256
Push32(hi, lo) == <<PUSH32>> \o Zeros(11) \o <<hi>> \o Zeros(19) \o <<lo>>

PushWord(w) == IF w[1] = 0 THEN Push1(w[2]) ELSE Push32(w[1], w[2])

RECURSIVE PushN(_, _)
PushN(n, v) == IF n = 0 THEN <<>> ELSE Push1(v) \o PushN(n - 1, v)

Values == {0, 3, 5}

\* storage keys: 1, 2 and 2^160 + 1, whose lower 20 bytes are those of 1
Keys == {W(1), W(2), <<1, 1>>}

StoreOp(k, v) == Push1(v) \o PushWord(k) \o <<SSTORE>>

StorePrograms ==
  {StoreOp(k1, v1) \o StoreOp(k2, v2) \o StoreOp(W(1), v3) :
     k1 \in Keys, k2 \in Keys, v1 \in Values, v2 \in Values, v3 \in Values}

\* PUSH1 t JUMP PUSH32 <... 0x5b> JUMPDEST STOP
JumpProgram(t) ==
  Push1(t) \o <<JUMP>> \o Push32(JUMPDEST, JUMPDEST) \o <<JUMPDEST, STOP>>

\* PUSH1 c PUSH1 t JUMPI PUSH32 <... 0x5b> JUMPDEST STOP
JumpiProgram(c, t) ==
  Push1(c) \o Push1(t) \o <<JUMPI>> \o Push32(JUMPDEST, JUMPDEST)
  \o <<JUMPDEST, STOP>>

JumpPrograms ==
  {JumpProgram(t) : t \in {2, 15, 35, 36, 37, 200}}
  \cup {JumpiProgram(c, t) : c \in {0, 1}, t \in {4, 17, 37, 38, 39, 200}}

TestedOps ==
  {STOP, POP, MSTORE, SLOAD, SSTORE, JUMP, JUMPI, PC, JUMPDEST, PUSH1, DUP1,
   SWAP1, CALL, CALLCODE, RETURN, DELEGATECALL, STATICCALL, REVERT, INVALID,
   SUICIDE}

\* n equal operands, then one instruction
OperandPrograms ==
  {PushN(n, v) \o <<op>> : n \in 0..3, v \in {0, 1}, op \in TestedOps}

\* PUSH2 of a value below 2^16
Push2(v) == <<PUSH1 + 1, v \div 256, v % 256>>

PushGas(gas) == IF gas < 256 THEN Push1(gas) ELSE Push2(gas)

CallProgram(op, gas, to, value, inSize, retSize, tail) ==
  Push1(retSize) \o Push1(0) \o Push1(inSize) \o Push1(0)
  \o (IF op \in {CALL, CALLCODE} THEN Push1(value) ELSE <<>>)
  \o Push1(to) \o PushGas(gas) \o <<op>> \o tail

MemSizes == {<<0, 0>>, <<32, 0>>, <<0, 64>>}

\* every shape of the operands, for a callee that is the account `to`
CallPrograms(targets) ==
  {CallProgram(op, g, to, v, m[1], m[2], <<>>) :
     op \in CallOps, g \in {0, 255}, to \in targets, v \in {0, 1},
     m \in MemSizes}

\* calls of account 11, then the end of the code or an invalid opcode
NestingPrograms ==
  {CallProgram(op, 255, 11, 0, 0, 64, tail) :
     op \in CallOps, tail \in {<<>>, <<INVALID>>}}

\* PUSH1 v PUSH1 0 MSTORE PUSH1 32 PUSH1 0 op
OutputProgram(v, op) ==
  Push1(v) \o Push1(0) \o <<MSTORE>> \o Push1(32) \o Push1(0) \o <<op>>

MiscPrograms ==
  {Push1(0) \o Push1(0) \o <<RETURN>>,
   OutputProgram(7, RETURN), OutputProgram(7, REVERT),
   Push1(12) \o <<SUICIDE>>}

\* two calls of account 11, with too little gas for its SUICIDE or with
\* enough, then the end of the code or a SUICIDE of the caller
SuicidePrograms ==
  {CallProgram(op1, g1, 11, 0, 0, 0,
               CallProgram(op2, g2, 11, 0, 0, 0, tail)) :
     op1 \in {CALL, DELEGATECALL}, op2 \in {CALL, DELEGATECALL},
     g1 \in {255, 40000}, g2 \in {255, 40000},
     tail \in {<<>>, Push1(12) \o <<SUICIDE>>}}

CalleePrograms ==
  {<<>>, StoreOp(W(1), 0), StoreOp(W(1), 3), <<INVALID>>,
   OutputProgram(7, RETURN), OutputProgram(7, REVERT),
   Push1(12) \o <<SUICIDE>>,
   CallProgram(STATICCALL, 255, 11, 0, 0, 0, <<>>)}

\* a scenario: the code of the two accounts, the contract Run is called on
\* (a nil CodeAddr is a contract creation), its gas and its input
Scenario(code10, code11, codeAddr, gas, input) ==
  [code10 |-> code10, code11 |-> code11, codeAddr |-> codeAddr, gas |-> gas,
   input |-> input]

\* how deep in the call stack the first Run may start
MaxStartDepth == 1

\* a start: a scenario, the rule set of the block, the mode of the
\* environment, the depth Run is called at and the value of slot 1 of
\* account 10
Start(sc, eip1283, ecip1045b, readOnly, d, slot) ==
  [scenario |-> sc, eip1283 |-> eip1283, ecip1045b |-> ecip1045b,
   readOnly |-> readOnly, depth0 |-> d, slot |-> slot]

Starts ==
  {Start(Scenario(p, <<>>, 10, g, <<>>), e, TRUE, FALSE, 0, v) :
     p \in StorePrograms, g \in {20210, 100000}, e \in BOOLEAN,
     v \in Values}
  \cup {Start(Scenario(p, <<>>, 10, g, <<>>), TRUE, c, FALSE, 0, 0) :
     p \in JumpPrograms, g \in {10, 100000}, c \in BOOLEAN}
  \cup {Start(Scenario(p, <<>>, 10, g, <<>>), e, c, r, d, 5) :
     p \in OperandPrograms, g \in {10, 100000}, e \in BOOLEAN,
     c \in BOOLEAN, r \in BOOLEAN, d \in 0..MaxStartDepth}
  \cup {Start(Scenario(p, <<>>, a, g, <<>>), TRUE, c, r, 0, 0) :
     p \in MiscPrograms, a \in {10, Nil}, g \in {10, 100000},
     c \in BOOLEAN, r \in BOOLEAN}
  \cup {Start(Scenario(p, OutputProgram(7, RETURN), 10, g, <<>>),
              TRUE, c, r, d, 0) :
     p \in CallPrograms({4, 11, 12}), g \in {900, 100000}, c \in BOOLEAN,
     r \in BOOLEAN, d \in 0..MaxStartDepth}
  \cup {Start(Scenario(p, q, 10, 100000, <<>>), TRUE, c, r, d, 5) :
     p \in NestingPrograms, q \in CalleePrograms, c \in BOOLEAN,
     r \in BOOLEAN, d \in 0..MaxStartDepth}
  \cup {Start(Scenario(p, Push1(12) \o <<SUICIDE>>, 10, g, <<>>),
              TRUE, TRUE, FALSE, 0, 0) :
     p \in SuicidePrograms, g \in {50000, 200000}}
  \cup {Start(Scenario(CallProgram(STATICCALL, 255, 11, 0, 0, 64, <<>>),
                       <<>>, 10, 500, <<>>), TRUE, c, FALSE, 0, 0) :
     c \in BOOLEAN}
  \cup {Start(Scenario(<<>>, <<>>, a, g, i), TRUE, c, FALSE, d, 0) :
     a \in {2, 4, 5, 10}, g \in {0, 17, 18, 100000},
     i \in {<<>>, <<1>>, Zeros(33)}, c \in BOOLEAN,
     d \in 0..MaxStartDepth}

(***************************************************************************)
(* State.                                                                  *)
(***************************************************************************)
VARIABLES
  status,      \* "init", "running", "resume" (a callee's Run has returned to
               \* the call handler), "done" (Run has returned), "abort"
  frames,      \* the activations of Run, the innermost last
  depth,       \* env.Depth()
  returnData,  \* the environment's return-data buffer; <<0>> stands for
               \* what an earlier call left there
  db,          \* the state database
  ret,         \* what the last Run to return returned
  env,         \* the rule set of the block and the call being run
  last         \* what the last iteration of the loop did

vars == <<status, frames, depth, returnData, db, ret, env, last>>

\* callCreateDepthMax, scaled down
MaxCallDepth == 1

CodeAt(a) ==
  IF a = 10 THEN env.scenario.code10
  ELSE IF a = 11 THEN env.scenario.code11 ELSE <<>>

NoLink == [op |-> STOP, retOffset |-> 0, retSize |-> 0]

NoRet ==
  [out |-> <<>>, err |-> "nil", gas |-> 0, left |-> 0, called |-> FALSE,
   price |-> 0, gasBefore |-> 0, entryDepth |-> 0, nested |-> FALSE,
   gas0 |-> 0, charged |-> 0, handedBack |-> 0,
   codeAddr |-> Nil, codeLen |-> 0,
   link |-> NoLink, snap |-> <<>>]

\* what the caller of Run makes of the frame's gas: a fatal error consumes
\* all of it, a revert or a success leaves the rest
FrameResult(err, gas) ==
  IF err \in {"nil", "ExecutionReverted"} THEN gas ELSE 0

Obs(f) ==
  [stack |-> f.stack, gas |-> f.gas, memLen |-> Len(f.mem), pc |-> f.pc,
   osm |-> f.osm]

NoObs == [stack |-> <<>>, gas |-> 0, memLen |-> 0, pc |-> 0, osm |-> <<>>]

NoLast ==
  [kind |-> "none", op |-> STOP, stage |-> "none", err |-> "nil",
   rd |-> <<>>, wrote |-> FALSE, mem |-> <<>>,
   readOnly |-> FALSE, addr |-> 0, code |-> <<>>, pre |-> NoObs,
   post |-> NoObs, preDb |-> <<>>, cost |-> 0, newMemSize |-> 0,
   calcStack |-> <<>>, originalValue |-> Zero, first |-> Zero]

\* RunProlog with the defer statement ahead of the increment
RunPrologDeferFirst(d) == [depth |-> d + 1, deferred |-> d - 1]

\* the prologue of Run: the depth goes up by one, and the argument of the
\* deferred SetDepth is evaluated right then
RunProlog(d) == [depth |-> d + 1, deferred |-> (d + 1) - 1]

\* the history of the SSTOREs a frame has executed: how many, their cost
\* less the refund they registered, the keys they wrote and the value the
\* last one stored
NoStores == [n |-> 0, net |-> 0, keys |-> {}, final |-> Zero]

NewFrame(c, pro, d, snap, link) ==
  [addr |-> c.addr, codeAddr |-> c.codeAddr, code |-> c.code, pc |-> 0, stack |-> <<>>, mem |-> <<>>,
   gas |-> c.gas, osm |-> <<>>, readOnly |-> c.readOnly,
   deferred |-> pro.deferred, entryDepth |-> d, seen |-> <<>>,
   gas0 |-> c.gas, charged |-> 0, handedBack |-> 0, stores |-> NoStores,
   nested |-> FALSE, snap |-> snap, link |-> link]

\* RunPath with the test for empty code ahead of the precompile dispatch
RunPathEmptyFirst(ecip1045b, codeAddr, code) ==
  IF Len(code) = 0 THEN "empty"
  ELSE IF codeAddr # Nil /\ codeAddr \in precompiles(ecip1045b)
  THEN "precompile"
  ELSE "loop"

\* the way Run takes after it has cleared the return data: a precompiled
\* contract at the code address is run, else empty code returns at once,
\* else the loop is entered
RunPath(ecip1045b, codeAddr, code) ==
  IF codeAddr # Nil /\ codeAddr \in precompiles(ecip1045b) THEN "precompile"
  ELSE IF Len(code) = 0 THEN "empty"
  ELSE "loop"

\* Run up to the first iteration of the loop, for the contract c called
\* with fs the activations below it
Enter(c, fs, snap, link) ==
  LET pro == RunProlog(depth)
      r0 == [NoRet EXCEPT !.gasBefore = c.gas, !.entryDepth = depth,
                          !.codeAddr = c.codeAddr, !.codeLen = Len(c.code),
                          !.link = link, !.snap = snap]
      path == RunPath(env.ecip1045b, c.codeAddr, c.code)
      back == IF fs = <<>> THEN "done" ELSE "resume"
  IN  /\ returnData' = <<>>
      /\ IF path = "precompile"
         THEN LET r == RunPrecompiled(c.codeAddr, c.input, c.gas)
              IN  /\ ret' = [r0 EXCEPT !.out = r.out, !.err = r.err,
                                       !.gas = r.gas,
                                       !.left = FrameResult(r.err, r.gas),
                                       !.called = r.called,
                                       !.price =
                                          PrecompileGas(c.codeAddr, c.input)]
                  /\ frames' = fs
                  /\ depth' = pro.deferred
                  /\ status' = back
         ELSE IF path = "empty"
         THEN /\ ret' = [r0 EXCEPT !.gas = c.gas, !.left = c.gas]
              /\ frames' = fs
              /\ depth' = pro.deferred
              /\ status' = back
         ELSE /\ ret' = ret
              /\ frames' = Append(fs, NewFrame(c, pro, depth, snap, link))
              /\ depth' = pro.depth
              /\ status' = "running"

\* the state database Run starts on: slot 1 of account 10 holds v
InitDb(v) ==
  [storage |-> IF v = 0 THEN <<>> ELSE [x \in {<<10, W(1)>>} |-> W(v)],
   refund |-> 0, suicided |-> {}, exists |-> {10, 11}, grants |-> <<>>]

Init ==
  /\ status = "init"
  /\ frames = <<>>
  /\ env \in Starts
  /\ depth = env.depth0
  /\ returnData = <<0>>
  /\ db = InitDb(env.slot)
  /\ ret = NoRet
  /\ last = NoLast

\* Run is called on the scenario's contract
RunTop ==
  /\ status = "init"
  /\ LET sc == env.scenario
         c == [addr |-> 10, codeAddr |-> sc.codeAddr,
               code |-> IF sc.codeAddr = Nil THEN sc.code10
                        ELSE CodeAt(sc.codeAddr),
               gas |-> sc.gas, input |-> sc.input, readOnly |-> env.readOnly]
     IN  Enter(c, <<>>, db, NoLink)
  /\ last' = [NoLast EXCEPT !.kind = "enter"]
  /\ UNCHANGED <<db, env>>

\* what the iteration x has charged: the computed cost, once the charge
\* was taken
Charged(x) == IF x.stage = "execute" THEN x.c.gas ELSE 0

\* the return of Run from the activation f: the deferred SetDepth runs
Leave(f, below, x) ==
  /\ frames' = below
  /\ depth' = f.deferred
  /\ ret' = [NoRet EXCEPT !.out = x.out, !.err = x.err, !.gas = x.f.gas,
                          !.left = FrameResult(x.err, x.f.gas),
                          !.gasBefore = f.gas, !.entryDepth = f.entryDepth,
                          !.gas0 = f.gas0,
                          !.charged = f.charged + Charged(x),
                          !.handedBack = f.handedBack,
                          !.nested = f.nested, !.link = f.link,
                          !.codeAddr = f.codeAddr, !.codeLen = Len(f.code),
                          !.snap = f.snap]
  /\ status' = IF below = <<>> THEN "done" ELSE "resume"
  /\ db' = x.db
  /\ UNCHANGED returnData

\* setReturnData writing whatever the opcode is
setReturnDataAlways(op, rd, result) == [data |-> result, wrote |-> TRUE]

\* the end of the loop body: the return data is set, to Run's result ret,
\* after an opcode that is returning
setReturnData(op, rd, result) ==
  IF IsReturning(op) THEN [data |-> result, wrote |-> TRUE]
  ELSE [data |-> rd, wrote |-> FALSE]

\* the call handlers (opCall, opCallCode, opDelegateCall, opStaticCall): the
\* operands are popped and the callee's contract is run, unless the call
\* depth is exhausted
CallHandler(f, below, op, dbc) ==
  LET st == f.stack
      hasValue == op \in {CALL, CALLCODE}
      o == IF hasValue THEN 1 ELSE 0
      gas == Uint(Back(st, 1))
      to == Uint(BigToAddress(Back(st, 2)))
      inOffset == Uint(Back(st, 3 + o))
      inSize == Uint(Back(st, 4 + o))
      link == [op |-> op, retOffset |-> Uint(Back(st, 5 + o)),
               retSize |-> Uint(Back(st, 6 + o))]
      fp == [f EXCEPT !.stack = PopN(st, 6 + o)]
      c == [addr |-> IF op \in {CALL, STATICCALL} THEN to ELSE f.addr,
            codeAddr |-> to, code |-> CodeAt(to), gas |-> gas,
            input |-> GetPtr(f.mem, inOffset, inSize),
            readOnly |-> f.readOnly \/ op = STATICCALL]
      db2 == IF op = CALL THEN [dbc EXCEPT !.exists = @ \cup {to}] ELSE dbc
  IN  IF depth > MaxCallDepth
      THEN /\ frames' = Append(below,
                               [fp EXCEPT !.stack = Append(@, Zero),
                                          !.gas = @ + gas, !.pc = @ + 1,
                                          !.handedBack = @ + gas])
           /\ returnData' = setReturnData(op, returnData, <<>>).data
           /\ db' = dbc
           /\ UNCHANGED <<status, depth, ret>>
      ELSE /\ Enter(c, Append(below, fp), dbc, link)
           /\ db' = db2

\* the frame the iteration it goes on with, its history brought up to date
\* (seen: the value each key held when the frame first priced an SSTORE to
\* it; refund: the refund counter ahead of the iteration)
Recorded(it, seen, refund) ==
  [it.f EXCEPT
     !.seen = seen,
     !.charged = @ + Charged(it),
     !.stores = IF it.op = SSTORE /\ it.stage = "execute"
                THEN [n |-> @.n + 1,
                      net |-> @.net + it.c.gas - (it.c.refund - refund),
                      keys |-> @.keys \cup {BigToHash(Back(it.c.stack, 1))},
                      final |-> Back(it.c.stack, 2)]
                ELSE @]

\* what the iteration it of the activation f, with the activations below
\* it, makes of the state
Iterated(f, below, it) ==
  LET priced == /\ it.op = SSTORE /\ env.eip1283
                /\ it.stage \in {"charge", "execute"}
      key == BigToHash(Back(f.stack, 1))
      seen == IF priced /\ key \notin DOMAIN f.seen
              THEN [x \in DOMAIN f.seen \cup {key} |->
                      IF x = key THEN GetState(db.storage, f.addr, key)
                      ELSE f.seen[x]]
              ELSE f.seen
  IN  /\ last' = [kind |-> "step", op |-> it.op, stage |-> it.stage,
                  err |-> IF it.kind \in {"end", "abort"} THEN it.err
                          ELSE "running",
                  rd |-> returnData, mem |-> it.f.mem,
                  wrote |-> /\ \/ it.kind = "cont"
                               \/ it.kind = "call" /\ depth > MaxCallDepth
                            /\ setReturnData(it.op, returnData, <<>>).wrote,
                  readOnly |-> f.readOnly, addr |-> f.addr,
                  code |-> f.code, pre |-> Obs(f), post |-> Obs(it.f),
                  preDb |-> db, cost |-> it.c.gas,
                  newMemSize |-> it.c.newMemSize,
                  calcStack |-> it.c.stack,
                  originalValue |-> it.c.originalValue,
                  first |-> IF priced THEN seen[key] ELSE Zero]
      /\ CASE it.kind = "abort" ->
                /\ status' = "abort"
                /\ frames' = <<>>
                /\ depth' = frames[1].deferred
                /\ ret' = [NoRet EXCEPT !.err = "panic"]
                /\ UNCHANGED <<db, returnData>>
           [] it.kind = "end" -> Leave(f, below, it)
           [] it.kind = "jump" ->
                /\ frames' = Append(below, Recorded(it, seen, db.refund))
                /\ db' = it.db
                /\ UNCHANGED <<status, depth, ret, returnData>>
           [] it.kind = "cont" ->
                /\ frames' = Append(below, Recorded(it, seen, db.refund))
                /\ db' = it.db
                /\ returnData' = setReturnData(it.op, returnData, <<>>).data
                /\ UNCHANGED <<status, depth, ret>>
           [] it.kind = "call" ->
                CallHandler(Recorded(it, seen, db.refund), below, it.op, it.db)

\* the loop on the activation f
Loop(f, below) == Iterated(f, below, iterate(env, f, db))

\* one iteration of the loop of the innermost activation
Step ==
  /\ status = "running"
  /\ Loop(frames[Len(frames)], SubSeq(frames, 1, Len(frames) - 1))
  /\ UNCHANGED env

\* the call handler goes on once the callee's Run has returned: the state
\* is rolled back on an error, the gas left is handed back, the output is
\* copied to memory and the success flag pushed; then the loop sets the
\* return data from Run's own ret, which is still nil, and advances
Resume ==
  /\ status = "resume"
  /\ LET n == Len(frames)
         f == frames[n]
         k == IF ret.link.retSize < Len(ret.out) THEN ret.link.retSize
              ELSE Len(ret.out)
         mem == IF ret.err \in {"nil", "ExecutionReverted"}
                THEN MemSet(f.mem, ret.link.retOffset, SubSeq(ret.out, 1, k))
                ELSE f.mem
     IN  /\ frames' = [frames EXCEPT ![n] =
                         [f EXCEPT !.stack =
                                      Append(@, IF ret.err = "nil" THEN W(1)
                                                ELSE Zero),
                                   !.gas = @ + ret.left, !.mem = mem,
                                   !.handedBack = @ + ret.left,
                                   !.pc = @ + 1, !.nested = TRUE]]
         /\ db' = IF ret.err # "nil" THEN ret.snap ELSE db
         /\ returnData' = setReturnData(ret.link.op, returnData, <<>>).data
  /\ status' = "running"
  /\ last' = [NoLast EXCEPT !.kind = "resume", !.op = ret.link.op,
                            !.rd = returnData,
                            !.wrote = setReturnData(ret.link.op, returnData,
                                                    <<>>).wrote]
  /\ UNCHANGED <<depth, ret, env>>

Next == RunTop \/ Step \/ Resume

Spec == Init /\ [][Next]_vars

(***************************************************************************)
(* Properties.                                                             *)
(***************************************************************************)
\* the last iteration reached the cost calculator
Costed == last.kind = "step" /\ last.stage \in {"cost", "charge", "execute"}

\* the last iteration priced an SSTORE under EIP-1283
Priced ==
  /\ last.kind = "step" /\ last.op = SSTORE /\ env.eip1283
  /\ last.stage \in {"charge", "execute"}

PricedKey == Back(last.pre.stack, 1)

PricedNew == Back(last.pre.stack, 2)

PricedCurrent == GetState(last.preDb.storage, last.addr, PricedKey)

\* C1: with EIP-1283 active, the cost and the refund delta of an SSTORE are
\* those of the algorithm of the specification on (original, current, new):
\* 200 and 0 when new = current; else, when original = current, 20000 if
\* original = 0, otherwise 5000 with +15000 when new = 0; else 200 with
\* -15000 if original # 0 and current = 0, +15000 if original # 0 and
\* new = 0, and +19800 (original = 0) or +4800 when original = new.
\* (0,0,5) gives 20000 and 0, (5,5,0) gives 5000 and 15000, (5,3,5) gives
\* 200 and 4800.
C1_SstoreAlgorithm ==
  Priced =>
    LET o == last.originalValue
        c == PricedCurrent
        n == PricedNew
        cost == last.cost
        refund == db.refund - last.preDb.refund
    IN  /\ n = c => cost = 200 /\ refund = 0
        /\ n # c /\ o = c /\ o = Zero => cost = 20000 /\ refund = 0
        /\ n # c /\ o = c /\ o # Zero /\ n = Zero =>
             cost = 5000 /\ refund = 15000
        /\ n # c /\ o = c /\ o # Zero /\ n # Zero => cost = 5000 /\ refund = 0
        /\ n # c /\ o # c =>
             /\ cost = 200
             /\ o = Zero /\ o = n => refund = 19800
             /\ o = Zero /\ o # n => refund = 0
             /\ o # Zero /\ c = Zero /\ o = n => refund = 4800 - 15000
             /\ o # Zero /\ c = Zero /\ o # n => refund = -15000
             /\ o # Zero /\ c # Zero /\ n = Zero => refund = 15000
             /\ o # Zero /\ c # Zero /\ n # Zero /\ o = n => refund = 4800
             /\ o # Zero /\ c # Zero /\ n # Zero /\ o # n => refund = 0
        /\ <<o, c, n>> = <<W(0), W(0), W(5)>> => cost = 20000 /\ refund = 0
        /\ <<o, c, n>> = <<W(5), W(5), W(0)>> => cost = 5000 /\ refund = 15000
        /\ <<o, c, n>> = <<W(5), W(3), W(5)>> => cost = 200 /\ refund = 4800

\* an SSTORE of 5 is priced on a slot that held 5 and now holds 3
C1_Witness ==
  /\ Priced
  /\ <<last.originalValue, PricedCurrent, PricedNew>> = <<W(5), W(3), W(5)>>

\* C2: with EIP-1283 active, the original value an SSTORE to the key k is
\* priced with is the value the slot k held at the first SSTORE to k in the
\* frame, whatever was stored to other keys since.
C2_OriginalPerKey == Priced => last.originalValue = last.first

\* C3: during an activation of Run the call depth is one more than it was
\* when Run was called, and once Run has returned, however it ended, the
\* depth is what it was before.
C3_DepthRestored ==
  /\ \A i \in 1..Len(frames) :
       frames[i].entryDepth = env.depth0 + i - 1
  /\ status = "running" => depth = frames[Len(frames)].entryDepth + 1
  /\ status = "resume" =>
       /\ ret.entryDepth = frames[Len(frames)].entryDepth + 1
       /\ depth = ret.entryDepth
  /\ status = "done" => ret.entryDepth = env.depth0 /\ depth = env.depth0

\* Run has returned an error from an activation that ran a callee
C3_Witness ==
  status = "done" /\ ret.nested /\ ret.err = "InvalidOpcode"

\* the operands an opcode requires on the stack
RequiredItems(op) ==
  CASE op = SWAP1 -> 2
    [] op = DUP1 -> 1
    [] OTHER -> stackPop(op)

\* the last iteration found fewer operands than its opcode requires
Underflow ==
  last.kind = "step" /\ Len(last.pre.stack) < RequiredItems(last.op)

\* the last iteration left the frame and the state database as they were
Untouched == last.post = last.pre /\ db = last.preDb

\* C4: in every mode, read-only included, a step with fewer operands on the
\* stack than its opcode requires ends the frame with StackUnderflow,
\* reported to the caller and never a process-level abort, and changes
\* neither the state, the refund counter, the original-value map, the gas,
\* the memory nor the stack.  (Stated for the opcodes that are not
\* state-modifying: those the read-only check refuses whatever the stack
\* holds, as step (b) of the loop is specified to.)
C4_UnderflowReported ==
  Underflow /\ ~IsStateModifying(last.op) =>
    /\ status \in {"done", "resume"}
    /\ last.err = "StackUnderflow"
    /\ ret.err = "StackUnderflow"
    /\ ret.gas = last.pre.gas
    /\ Untouched

\* the last iteration was one the read-only mode forbids
Forbidden ==
  /\ last.kind = "step" /\ last.readOnly /\ env.ecip1045b
  /\ \/ IsStateModifying(last.op)
     \/ /\ last.op = CALL
        /\ Len(last.pre.stack) >= 3
        /\ NonZero(Back(last.pre.stack, 3))

\* C5: in a read-only frame a step of a state-modifying opcode, or of a
\* CALL with a nonzero value, ends the frame with WriteProtectionViolation
\* ahead of the cost calculator: no refund, no original-value entry, no gas
\* charged, no memory grown, the stack as it was.
C5_WriteProtection ==
  Forbidden =>
    /\ status \in {"done", "resume"}
    /\ last.stage = "check"
    /\ last.err = "WriteProtection"
    /\ ret.err = "WriteProtection"
    /\ ret.gas = last.pre.gas
    /\ Untouched

\* a CALL that transfers value was refused in a read-only frame
C5_Witness ==
  Forbidden /\ last.op = CALL /\ last.err = "WriteProtection"

\* the cost computed by the last iteration exceeds the gas of the contract
Insufficient ==
  /\ last.kind = "step" /\ last.stage \in {"charge", "execute"}
  /\ last.cost > last.pre.gas

\* C6: when the cost of the next instruction exceeds the gas that remains,
\* Run ends with OutOfGas, nothing is charged in part and the frame's gas
\* is all consumed; the handler is not run.
C6_OutOfGas ==
  Insufficient =>
    /\ status \in {"done", "resume"}
    /\ last.stage = "charge"
    /\ last.err = "OutOfGas"
    /\ ret.err = "OutOfGas"
    /\ ret.out = <<>>
    /\ ret.gas = last.pre.gas
    /\ ret.left = 0
    /\ last.post.pc = last.pre.pc
    /\ last.post.memLen = last.pre.memLen
    /\ last.post.stack = last.calcStack
    /\ db.storage = last.preDb.storage
    /\ db.suicided = last.preDb.suicided

\* an SSTORE that costs more than the gas left has ended the frame
C6_Witness ==
  Insufficient /\ last.op = SSTORE /\ last.pre.gas > 0 /\ status = "done"

\* the offsets at which an instruction of the code starts
RECURSIVE InstrStarts(_, _)
InstrStarts(code, i) ==
  IF i >= Len(code) THEN {}
  ELSE {i} \cup InstrStarts(code, IF IsPush(code[i + 1])
                                  THEN i + code[i + 1] - PUSH1 + 2
                                  ELSE i + 1)

\* the word is the offset of a JUMPDEST that is an instruction of the code
IsJumpDest(code, to) ==
  /\ to[1] = 0
  /\ to[2] \in InstrStarts(code, 0)
  /\ code[to[2] + 1] = JUMPDEST

\* the last iteration executed a JUMP, or a JUMPI whose condition holds
Jumped ==
  /\ last.kind = "step" /\ last.stage = "execute"
  /\ \/ last.op = JUMP
     \/ last.op = JUMPI /\ NonZero(Back(last.pre.stack, 2))

JumpTarget == Back(last.pre.stack, 1)

\* C7: a JUMP, or a JUMPI with a nonzero condition, moves the program
\* counter to the popped target if and only if the target is a jump
\* destination of the code; otherwise the frame ends with
\* InvalidJumpDestination and the program counter stays where it was.
C7_JumpValidated ==
  Jumped =>
    IF IsJumpDest(last.code, JumpTarget)
    THEN /\ last.err = "running"
         /\ last.post.pc = Uint(JumpTarget)
         /\ frames[Len(frames)].pc = Uint(JumpTarget)
    ELSE /\ last.err = "InvalidJump"
         /\ ret.err = "InvalidJump"
         /\ last.post.pc = last.pre.pc

\* a jump into a PUSH32 payload, at a byte that is the JUMPDEST opcode, was
\* refused
C7_Witness ==
  /\ Jumped /\ last.err = "InvalidJump"
  /\ GetOp(last.code, Uint(JumpTarget)) = JUMPDEST

\* C8: the cost calculator leaves the stack as it found it, item for item,
\* for every opcode.
C8_StackNeverMutated == Costed => last.calcStack = last.pre.stack

\* C8, amended: the cost calculator leaves the stack as it found it but for
\* the top slot of a CALL, CALLCODE, DELEGATECALL or STATICCALL, the
\* requested gas, which it may overwrite; the depth of the stack and every
\* other slot are as they were.
C8_OnlyCallGasSlot ==
  Costed =>
    /\ Len(last.calcStack) = Len(last.pre.stack)
    /\ \A i \in 1..Len(last.pre.stack) :
         last.calcStack[i] # last.pre.stack[i] =>
           last.op \in CallOps /\ i = Len(last.pre.stack)

\* the cost calculation of a DELEGATECALL overwrote the requested gas
C8_Witness ==
  /\ Costed /\ last.op = DELEGATECALL
  /\ last.calcStack # last.pre.stack

\* the last iteration computed the cost of a call
CallCosted ==
  /\ last.kind = "step" /\ last.op \in CallOps
  /\ last.stage \in {"charge", "execute"}

\* the base cost of the call: the call cost, the new-account and the
\* value-transfer surcharges, the memory expansion
CallBase ==
  LET st == last.pre.stack
      o == IF last.op \in {CALL, CALLCODE} THEN 1 ELSE 0
      in == calcMemSize(Back(st, 3 + o), Back(st, 4 + o))
      out == calcMemSize(Back(st, 5 + o), Back(st, 6 + o))
      words == toWordSize(Max(in, out))
      grown == IF words * 32 > last.pre.memLen
               THEN MemFee(words) - MemFee(last.pre.memLen \div 32) ELSE 0
  IN  gasTable.Calls
      + (IF last.op = CALL /\ Uint(Back(st, 2)) \notin last.preDb.exists
         THEN 25000 ELSE 0)
      + (IF o = 1 /\ NonZero(Back(st, 3)) THEN 9000 ELSE 0)
      + grown

CallForwarded ==
  callGas(last.pre.gas, CallBase, Uint(Back(last.pre.stack, 1)))

\* C9: after the cost calculation of a CALL, CALLCODE, DELEGATECALL or
\* STATICCALL the slot of the requested gas holds the amount the
\* forwarding rule gives for the remaining gas and the base cost, the other
\* slots are as they were, and the cost is the base cost plus that amount.
C9_ForwardedGas ==
  CallCosted =>
    /\ last.calcStack =
         [last.pre.stack EXCEPT ![Len(last.pre.stack)] = W(CallForwarded)]
    /\ last.cost = CallBase + CallForwarded
    /\ last.stage = "execute" => last.post.gas = last.pre.gas - last.cost

\* a call was charged with less gas forwarded than it requested
C9_Witness ==
  /\ CallCosted /\ last.stage = "execute"
  /\ CallForwarded < Uint(Back(last.pre.stack, 1))
  /\ CallForwarded > 0

\* Run has just been called on a contract whose code address is reserved
\* for a precompiled contract
Dispatched ==
  /\ last.kind = "enter" /\ status = "done"
  /\ env.scenario.codeAddr \in precompiles(env.ecip1045b)

DispatchPrice == PrecompileGas(env.scenario.codeAddr, env.scenario.input)

\* C10: on a contract whose code address is reserved for the active fork,
\* Run runs no bytecode: with gas for the precompile's price on the input
\* it charges that price and returns the precompile's output, otherwise it
\* returns OutOfGas and the precompile is not invoked.
C10_PrecompileDispatch ==
  /\ last.kind = "enter" /\ env.scenario.codeAddr \in precompiles(env.ecip1045b)
       => status = "done"
  /\ Dispatched =>
       IF env.scenario.gas >= DispatchPrice
       THEN /\ ret.err = "nil"
            /\ ret.called
            /\ ret.out = PrecompileCall(env.scenario.codeAddr,
                                        env.scenario.input)
            /\ ret.gas = env.scenario.gas - DispatchPrice
       ELSE /\ ret.err = "OutOfGas"
            /\ ~ret.called
            /\ ret.out = <<>>
            /\ ret.gas = env.scenario.gas

\* a precompile was refused for one unit of gas short of its price
C10_Witness ==
  Dispatched /\ env.scenario.gas = DispatchPrice - 1 /\ ret.err = "OutOfGas"

\* how many times the self-destruct refund stands added for the contract a
Granted(a) == Cardinality({i \in 1..Len(db.grants) : db.grants[i] = a})

\* the last iteration computed the cost of a SUICIDE
SuicideCosted ==
  /\ last.kind = "step" /\ last.op = SUICIDE
  /\ last.stage \in {"charge", "execute"}

InvalidFetched == last.kind = "step" /\ ~valid(env.ecip1045b, last.op)

\* the last iteration applied no effect of a handler: the stack is as the
\* cost calculator left it, the program counter is where it was, the memory
\* has at most grown to the computed size and the return data is untouched
NoHandlerEffect ==
  /\ last.post.stack = last.calcStack
  /\ last.post.pc = last.pre.pc
  /\ last.post.memLen \in {last.pre.memLen, last.newMemSize}
  /\ returnData = <<>>
  /\ db.storage = last.preDb.storage /\ db.suicided = last.preDb.suicided

\* C12: a step whose opcode has no valid entry in the jump table of the
\* active fork ends the frame with InvalidOpcode, and no effect of a
\* handler is applied.
C12_InvalidOpcode ==
  InvalidFetched =>
    /\ status \in {"done", "resume"}
    /\ last.err = "InvalidOpcode" /\ ret.err = "InvalidOpcode"
    /\ NoHandlerEffect

\* C12, amended: a step whose opcode has no valid entry in the jump table
\* of the active fork ends the frame with an error and no effect of a
\* handler is applied: the error of the cost computation or of the gas
\* charge when that stage fails (the stack check and the charge come ahead
\* of the look-up in the table), InvalidOpcode otherwise.
C12_InvalidOpcodeLast ==
  InvalidFetched =>
    /\ status \in {"done", "resume"}
    /\ ret.err = last.err /\ ret.out = <<>>
    /\ NoHandlerEffect
    /\ IF Len(last.pre.stack) < RequiredItems(last.op)
       THEN last.stage = "cost" /\ last.err = "StackUnderflow"
       ELSE IF last.cost > last.pre.gas
       THEN last.stage = "charge" /\ last.err = "OutOfGas"
       ELSE last.stage = "execute" /\ last.err = "InvalidOpcode"

\* a STATICCALL ahead of its fork was charged and then found invalid
C12_Witness ==
  /\ InvalidFetched /\ last.op = STATICCALL
  /\ last.err = "InvalidOpcode" /\ last.post.gas < last.pre.gas

\* C13: the return-data buffer is empty once Run is entered, and in the
\* loop it is written only in a step of an opcode flagged as returning: a
\* step of any other opcode leaves the buffer as it was.
C13_ReturnDataWrites ==
  /\ last.kind = "enter" => returnData = <<>>
  /\ status = "running" /\ frames[Len(frames)].pc = 0
       /\ frames[Len(frames)].stack = <<>> => returnData = <<>>
  /\ last.kind \in {"step", "resume"} /\ last.wrote => IsReturning(last.op)
  /\ last.kind = "step" /\ ~IsReturning(last.op) =>
       ~last.wrote /\ returnData = last.rd

\* the loop has set the return data after the handler of a CALL
C13_Witness ==
  /\ last.kind = "resume" /\ last.wrote /\ last.op = CALL
  /\ returnData = <<>>

\* the last iteration has ended the frame
Ended ==
  /\ last.kind = "step" /\ last.err \notin {"running", "panic"}
  /\ status \in {"done", "resume"}

\* the bytes [off, off + size) of the memory the last iteration left
Slice(off, size) == [i \in 1..Uint(size) |-> last.mem[Uint(off) + i]]

FatalErrors ==
  {"WriteProtection", "StackUnderflow", "StackLimit", "OutOfGas",
   "InvalidJump", "InvalidOpcode"}

\* C14: the result of Run tells the terminal states apart: a RETURN gives
\* the bytes [offset, offset + size) of the memory and no error, a REVERT
\* the bytes with ExecutionReverted, which is no fatal error, STOP and
\* SUICIDE no output and no error, and every fatal end (write protection,
\* stack fault, out of gas, invalid jump, invalid opcode) an error and no
\* output.
C14_ResultKinds ==
  Ended =>
    /\ ret.err = last.err
    /\ ret.err \in FatalErrors \cup {"nil", "ExecutionReverted"}
    /\ IF last.stage = "execute" /\ valid(env.ecip1045b, last.op)
       THEN CASE last.op = RETURN ->
                   /\ ret.err = "nil"
                   /\ ret.out = Slice(Back(last.pre.stack, 1),
                                      Back(last.pre.stack, 2))
              [] last.op = REVERT ->
                   /\ ret.err = "ExecutionReverted"
                   /\ ret.out = Slice(Back(last.pre.stack, 1),
                                      Back(last.pre.stack, 2))
              [] last.op \in {STOP, SUICIDE} ->
                   ret.err = "nil" /\ ret.out = <<>>
              [] OTHER -> ret.err = "InvalidJump" /\ ret.out = <<>>
       ELSE ret.err \in FatalErrors /\ ret.out = <<>>

\* a REVERT has returned the 32 bytes it was told to, with
\* ExecutionReverted
C14_Witness ==
  /\ Ended /\ last.op = REVERT /\ ret.err = "ExecutionReverted"
  /\ Len(ret.out) = 32 /\ ret.out[32] = 7

\* the last iteration priced an SSTORE ahead of EIP-1283
PricedFlat ==
  /\ last.kind = "step" /\ last.op = SSTORE /\ ~env.eip1283
  /\ last.stage \in {"charge", "execute"}

\* C15: ahead of EIP-1283 an SSTORE is priced from (current, new) alone:
\* zero to nonzero costs 20000 with no refund, nonzero to zero 5000 with
\* 15000 added to the refund counter, every other transition 5000 with no
\* refund; no original value is recorded.
C15_FlatSstore ==
  PricedFlat =>
    LET c == PricedCurrent
        n == PricedNew
        refund == db.refund - last.preDb.refund
    IN  /\ c = Zero /\ n # Zero => last.cost = 20000 /\ refund = 0
        /\ c # Zero /\ n = Zero => last.cost = 5000 /\ refund = 15000
        /\ c # Zero /\ n # Zero => last.cost = 5000 /\ refund = 0
        /\ c = Zero /\ n = Zero => last.cost = 5000 /\ refund = 0
        /\ last.post.osm = <<>> /\ last.pre.osm = <<>>

\* a nonzero slot was overwritten with another nonzero value ahead of
\* EIP-1283
C15_Witness ==
  /\ PricedFlat /\ last.stage = "execute"
  /\ PricedCurrent = W(3) /\ PricedNew = W(5)

\* PUSH1 0 PUSH1 0 RETURN
ReturnNothing == Push1(0) \o Push1(0) \o <<RETURN>>

\* C16: the gas of a frame is never negative and every executed
\* instruction is charged once: a step whose charge succeeds lowers the gas
\* by the cost computed for the instruction, so that the gas the loop has
\* consumed is the sum of the computed costs of the executed instructions
\* (less what the callees handed back), in the frames that run and in the
\* result of a frame that ended without a fatal error; the code PUSH1 0
\* PUSH1 0 RETURN consumes the two PUSH costs and RETURN's cost for no
\* memory, and returns nothing.
C16_GasAccounting ==
  /\ \A i \in 1..Len(frames) :
       /\ frames[i].gas >= 0
       /\ status = "running" \/ i < Len(frames) =>
            frames[i].gas0 - frames[i].gas
              = frames[i].charged - frames[i].handedBack
  /\ ret.gas >= 0
  /\ last.kind = "step" /\ last.stage = "execute" =>
       last.post.gas = last.pre.gas - last.cost
  /\ last.kind = "step" /\ last.stage \in {"check", "cost", "charge"} =>
       last.post.gas = last.pre.gas
  /\ Ended /\ ret.err \in {"nil", "ExecutionReverted"} =>
       ret.gas0 - ret.gas = ret.charged - ret.handedBack
  /\ Ended /\ status = "done" /\ env.scenario.code10 = ReturnNothing =>
       IF env.scenario.gas >= 6
       THEN /\ ret.err = "nil" /\ ret.out = <<>>
            /\ env.scenario.gas - ret.gas = 3 + 3 + 0
            /\ ret.charged = 6
       ELSE ret.err = "OutOfGas"

\* a frame that ran a callee has returned, its gas the sum of what its
\* instructions were charged less what the callee handed back
C16_Witness ==
  /\ Ended /\ status = "done" /\ ret.err = "nil"
  /\ ret.handedBack > 0 /\ ret.charged > ret.handedBack
  /\ ret.gas0 - ret.gas = ret.charged - ret.handedBack

\* what the last iteration did, stage by stage: a stage that failed left
\* the later ones undone
Stages ==
  last.kind = "step" =>
    /\ last.stage \in {"check", "cost"} => Untouched
    /\ last.stage = "charge" =>
         /\ last.post.gas = last.pre.gas
         /\ last.cost > last.pre.gas
    /\ last.stage = "execute" =>
         /\ last.post.gas = last.pre.gas - last.cost
         /\ last.post.memLen = Max(last.pre.memLen, last.newMemSize)
    /\ last.post.memLen # last.pre.memLen => last.stage = "execute"
    /\ \/ last.post.pc # last.pre.pc
       \/ last.post.stack # last.calcStack
       \/ db.storage # last.preDb.storage
       \/ db.suicided # last.preDb.suicided
       => last.stage = "execute"
    /\ db.refund # last.preDb.refund => last.stage \in {"charge", "execute"}
    /\ last.stage = "execute" /\ last.op = MSTORE =>
         LET off == Uint(Back(last.pre.stack, 1))
         IN  /\ Len(last.mem) >= off + 32
             /\ SubSeq(last.mem, off + 1, off + 32)
                  = WordToBytes(Back(last.pre.stack, 2))
    /\ last.post.memLen % 32 = 0 /\ last.post.memLen >= last.pre.memLen

\* the memory of every frame that goes on is at least as large as it was
MemoryGrows ==
  \A i \in 1..Len(frames) :
    i <= Len(frames') => Len(frames'[i].mem) >= Len(frames[i].mem)

\* C17: a step runs its stages in the order read-only check, cost
\* computation with the registration of the refund, gas charge, memory
\* growth, handler, and a stage runs only when the earlier ones succeeded:
\* the memory grows only in a step whose charge succeeded, the handler acts
\* on the grown memory, and the memory of a frame never shrinks.
C17_StageOrder == []Stages /\ [][MemoryGrows]_vars

\* an MSTORE has written into the memory its own step has grown
C17_Witness ==
  /\ last.kind = "step" /\ last.stage = "execute" /\ last.op = MSTORE
  /\ last.pre.memLen = 0 /\ last.post.memLen = 32 /\ last.mem[32] = 7

\* C18: with EIP-1283 active and the refund counter at 0 when the
\* transaction starts, the counter is never below 0, whatever SSTORE steps
\* the frames of the transaction take.
C18_RefundNonNegative == env.eip1283 => db.refund >= 0

\* the cost less the refund of n SSTOREs to one slot, from its original
\* value and the value it ends with
Net(n, original, final) ==
  IF final = original THEN 200 * n
  ELSE IF original = Zero THEN 20000 + 200 * (n - 1)
  ELSE IF final = Zero THEN 5000 - 15000 + 200 * (n - 1)
  ELSE 5000 + 200 * (n - 1)

\* the frame has executed SSTOREs, all of them to the key k
SingleKey(f, k) == f.stores.n > 0 /\ f.stores.keys = {k}

\* C19: with EIP-1283 active, the cost less the refund of n SSTORE steps
\* of a frame to a single key depends on n, on the original value of the
\* slot and on the value it ends with, not on the values written in
\* between; it is 200 * n when the slot ends with its original value.
C19_NetSstore ==
  env.eip1283 =>
    \A i \in 1..Len(frames) : \A k \in Keys :
      SingleKey(frames[i], k) =>
        LET f == frames[i]
        IN  /\ f.stores.net = Net(f.stores.n, f.seen[k], f.stores.final)
            /\ f.stores.final = f.seen[k] => f.stores.net = 200 * f.stores.n

\* three SSTOREs to slot 1 have cleared it, set it to another value and
\* restored its original value 5
C19_Witness ==
  /\ env.eip1283 /\ Len(frames) = 1 /\ SingleKey(frames[1], W(1))
  /\ frames[1].stores.n = 3 /\ frames[1].stores.net = 600
  /\ frames[1].seen[W(1)] = W(5)
  /\ last.op = SSTORE /\ PricedCurrent = W(3) /\ PricedNew = W(5)

\* a Run on empty code has just returned: to the first caller, or to the
\* call handler of the frame that called it
EmptyReturned ==
  /\ \/ status = "done" /\ last.kind = "enter"
     \/ status = "resume"
  /\ ret.codeLen = 0

\* the state database but for the account the CALL handler has created
SameState(a, b) == [a EXCEPT !.exists = {}] = [b EXCEPT !.exists = {}]

\* C20: Run on empty code at a code address that is no precompile returns
\* empty output and no error, charges no gas, leaves the state and the
\* refund counter alone, clears the return data and restores the depth;
\* at a precompile's address the precompile is run although the code is
\* empty.
C20_EmptyCode ==
  EmptyReturned =>
    IF ret.codeAddr # Nil /\ ret.codeAddr \in precompiles(env.ecip1045b)
    THEN /\ ret.price > 0
         /\ \/ ret.called /\ ret.err = "nil"
               /\ ret.gas = ret.gasBefore - ret.price
            \/ ~ret.called /\ ret.err = "OutOfGas"
               /\ ret.gasBefore < ret.price
    ELSE /\ ret.out = <<>> /\ ret.err = "nil"
         /\ ret.gas = ret.gasBefore /\ ret.left = ret.gasBefore
         /\ ~ret.called /\ ret.price = 0
         /\ SameState(db, ret.snap)
         /\ db.exists \subseteq ret.snap.exists \cup {ret.codeAddr}
         /\ returnData = <<>>
         /\ depth = ret.entryDepth

\* the CALL of a frame at depth 1 to an account without code has returned
\* at once, with all of the gas it was given
C20_Witness ==
  /\ status = "resume" /\ ret.codeLen = 0 /\ ret.codeAddr = 12
  /\ ret.gasBefore > 0 /\ ret.left = ret.gasBefore
  /\ Len(frames) = 1 /\ depth = 1 /\ ret.entryDepth = 1
  /\ returnData = <<>>

====
